---- MODULE Spec2Model ----
(***************************************************************************)
(* Model of install_model.py (greCy): the fetch / cache / stage / install  *)
(* pipeline of main(), with run_command, get_download_command and          *)
(* get_install_info.                                                       *)
(*                                                                         *)
(* The cache directory is a map from file names to what the file holds.    *)
(* Each run of the script is a process that walks through main(); the      *)
(* three subprocesses (download command, pip install, pip show) and the    *)
(* operating system (a failing rename, an interrupt) are the environment   *)
(* and choose their outcome freely.  sys.exit() raises SystemExit, which   *)
(* is a BaseException: the handlers `except Exception` and                 *)
(* `except KeyboardInterrupt` of main() and get_install_info() do not      *)
(* catch it.                                                               *)
(*                                                                         *)
(* KeyboardInterrupt is modelled inside the try block of main() (lines     *)
(* 149-179), where the code handles it; an interrupt outside that block is *)
(* an unhandled crash of the interpreter and is not modelled.              *)
(***************************************************************************)
EXTENDS Integers, Sequences, FiniteSets, TLC

\* ------------------------------------------------------------------ bounds
\* number of runs of the script in one behaviour
MaxRuns == 2

\* ------------------------------------------------------------ input domains
\* the slots in which a run of the script executes
Procs == {1, 2}

\* model identifiers given as sys.argv[1]
Ids == {"grc_proiel_trf", "foo_bar", "grc_proiel_sm"}

\* values of platform.system(): the two supported families and one other
Platforms == {"Linux", "Darwin", "Windows", "FreeBSD"}

\* what a file of the cache directory holds
Absent   == "absent"
Partial  == "partial"
Complete == "complete"

\* exitcode of a run that has not exited yet
NotExited == -1

\* ------------------------------------------------------------ naming rule
\* install_model.py:122-130, the name of the file on Hugging Face
file_name_to_download_of(m) ==
    IF m = "grc_proiel_trf"
    THEN "grc_proiel_trf-3.7.5-py3-none-any.whl"
    ELSE m \o "-any-py3-none-any.whl"

\* install_model.py:122-130, the name pip accepts
file_to_install_of(m) ==
    IF m = "grc_proiel_trf"
    THEN "grc_proiel_trf-3.7.5-py3-none-any.whl"
    ELSE m \o "-0.0.0-py3-none-any.whl"

\* a naming rule that asks for the rename whatever the identifier
needs_rename_always(m) == TRUE

\* install_model.py:126,130
needs_rename_of(m) == m # "grc_proiel_trf"

\* one staging name for every download
download_path_tmp_shared(hf) == "download.part"

\* install_model.py:147 (paths are taken relative to cache_dir)
download_path_tmp_of(hf) == hf \o ".part"

\* every file name a run can touch
Paths ==
    UNION { { file_name_to_download_of(m),
              download_path_tmp_of(file_name_to_download_of(m)),
              file_to_install_of(m) } : m \in Ids }

\* ------------------------------------------------------------------- state
VARIABLES
    fs,                     \* cache directory: file name -> content
    cache_dir,              \* os.makedirs has created the cache directory
    history,                \* summaries of the runs that have exited
    pc,                     \* position of each run in main()
    has_arg,                \* len(sys.argv) >= 2
    model_name,             \* sys.argv[1]
    system,                 \* platform.system()
    file_name_to_download,  \* local of main()
    file_to_install,        \* local of main()
    needs_rename,           \* local of main()
    ops,                    \* what the run has done so far, in order
    fs0,                    \* the cache directory as it was when the run started
    exitcode                \* exit status of the run

vars == << fs, cache_dir, history, pc, has_arg, model_name, system,
           file_name_to_download, file_to_install, needs_rename,
           ops, fs0, exitcode >>

procvars == << has_arg, model_name, system >>
namevars == << file_name_to_download, file_to_install, needs_rename >>

\* one entry of ops
Op(o, s, d, c, r) == [op |-> o, src |-> s, dst |-> d, data |-> c, res |-> r]

\* install_model.py:135
installable_path(p) == file_to_install[p]
\* install_model.py:145
download_path_hf(p) == file_name_to_download[p]
\* install_model.py:147
download_path_tmp(p) == download_path_tmp_of(file_name_to_download[p])

\* os.path.exists
Exists(path) == fs[path] # Absent

Log(p, e) == ops' = [ops EXCEPT ![p] = Append(@, e)]
Goto(p, l) == pc' = [pc EXCEPT ![p] = l]

\* what a run has done so far
Did(p, o) == \E i \in 1..Len(ops[p]) : ops[p][i].op = o
DidRes(p, o, r) == \E i \in 1..Len(ops[p]) : ops[p][i].op = o /\ ops[p][i].res = r

Active(p) == pc[p] \notin {"idle"}

Init ==
    /\ fs = [f \in Paths |-> Absent]
    /\ cache_dir = FALSE
    /\ history = << >>
    /\ pc = [p \in Procs |-> "idle"]
    /\ has_arg = [p \in Procs |-> FALSE]
    /\ model_name = [p \in Procs |-> ""]
    /\ system = [p \in Procs |-> ""]
    /\ file_name_to_download = [p \in Procs |-> ""]
    /\ file_to_install = [p \in Procs |-> ""]
    /\ needs_rename = [p \in Procs |-> FALSE]
    /\ ops = [p \in Procs |-> << >>]
    /\ fs0 = [p \in Procs |-> [f \in Paths |-> Absent]]
    /\ exitcode = [p \in Procs |-> NotExited]

\* sys.exit(code), or falling off the end of main() (code 0)
Exit(p, code) ==
    /\ Goto(p, "done")
    /\ exitcode' = [exitcode EXCEPT ![p] = code]

\* --------------------------------------------------------------- the runs
\* the script is started: python install_model.py [<model_name>]
Start(p, a, m, s) ==
    /\ pc[p] = "idle"
    /\ Len(history) + Cardinality({q \in Procs : Active(q)}) < MaxRuns
    /\ has_arg' = [has_arg EXCEPT ![p] = a]
    /\ model_name' = [model_name EXCEPT ![p] = IF a THEN m ELSE ""]
    /\ system' = [system EXCEPT ![p] = s]
    /\ fs0' = [fs0 EXCEPT ![p] = fs]
    /\ Goto(p, "main")
    /\ UNCHANGED << fs, cache_dir, history, namevars, ops, exitcode >>

\* an argument check placed after the creation of the cache directory
CheckArgvAfterMakeDirs(p) ==
    /\ pc[p] = "main"
    /\ cache_dir' = TRUE
    /\ Log(p, Op("makedirs", "", "", "", "ok"))
    /\ IF ~ has_arg[p]
       THEN Exit(p, 1)
       ELSE Goto(p, "makedirs") /\ UNCHANGED exitcode
    /\ UNCHANGED << fs, history, procvars, namevars, fs0 >>

\* install_model.py:107-114
CheckArgv(p) ==
    /\ pc[p] = "main"
    /\ IF ~ has_arg[p]
       THEN Exit(p, 1)
       ELSE Goto(p, "makedirs") /\ UNCHANGED exitcode
    /\ UNCHANGED << fs, cache_dir, history, procvars, namevars, ops, fs0 >>

\* install_model.py:117-135: create the cache directory, derive the names
MakeDirs(p) ==
    /\ pc[p] = "makedirs"
    /\ cache_dir' = TRUE
    /\ file_name_to_download' =
         [file_name_to_download EXCEPT ![p] = file_name_to_download_of(model_name[p])]
    /\ file_to_install' =
         [file_to_install EXCEPT ![p] = file_to_install_of(model_name[p])]
    /\ needs_rename' = [needs_rename EXCEPT ![p] = needs_rename_of(model_name[p])]
    /\ Log(p, Op("makedirs", "", "", "", "ok"))
    /\ Goto(p, "check_cache")
    /\ UNCHANGED << fs, history, procvars, fs0, exitcode >>

\* a cache check that probes the name the file has on Hugging Face
CheckCacheRemoteName(p) ==
    /\ pc[p] = "check_cache"
    /\ IF Exists(download_path_hf(p))
       THEN /\ Log(p, Op("exists", installable_path(p), "", fs[installable_path(p)], "hit"))
            /\ Goto(p, "install")
       ELSE /\ Log(p, Op("exists", installable_path(p), "", Absent, "miss"))
            /\ Goto(p, "get_download_command")
    /\ UNCHANGED << fs, cache_dir, history, procvars, namevars, fs0, exitcode >>

\* a cache check whose hit does not skip the download
CheckCacheNoSkip(p) ==
    /\ pc[p] = "check_cache"
    /\ IF Exists(installable_path(p))
       THEN Log(p, Op("exists", installable_path(p), "", fs[installable_path(p)], "hit"))
       ELSE Log(p, Op("exists", installable_path(p), "", Absent, "miss"))
    /\ Goto(p, "get_download_command")
    /\ UNCHANGED << fs, cache_dir, history, procvars, namevars, fs0, exitcode >>

\* install_model.py:138-147
CheckCache(p) ==
    /\ pc[p] = "check_cache"
    /\ IF Exists(installable_path(p))
       THEN /\ Log(p, Op("exists", installable_path(p), "", fs[installable_path(p)], "hit"))
            /\ Goto(p, "install")
       ELSE /\ Log(p, Op("exists", installable_path(p), "", Absent, "miss"))
            /\ Goto(p, "get_download_command")
    /\ UNCHANGED << fs, cache_dir, history, procvars, namevars, fs0, exitcode >>

\* a platform probe that falls back to curl on an unknown platform
GetDownloadCommandFallback(p) ==
    /\ pc[p] = "get_download_command"
    /\ IF system[p] = "Windows"
       THEN Log(p, Op("get_download_command", "", "", "", "powershell"))
       ELSE Log(p, Op("get_download_command", "", "", "", "curl"))
    /\ Goto(p, "run_command")
    /\ UNCHANGED << fs, cache_dir, history, procvars, namevars, fs0, exitcode >>

\* install_model.py:153 and 59-67: the download command of the platform.
\* On another platform get_download_command calls sys.exit(1); SystemExit
\* passes both handlers of main() (lines 169 and 175).
GetDownloadCommand(p) ==
    /\ pc[p] = "get_download_command"
    /\ IF system[p] \in {"Linux", "Darwin"}
       THEN /\ Log(p, Op("get_download_command", "", "", "", "curl"))
            /\ Goto(p, "run_command")
            /\ UNCHANGED exitcode
       ELSE IF system[p] = "Windows"
       THEN /\ Log(p, Op("get_download_command", "", "", "", "powershell"))
            /\ Goto(p, "run_command")
            /\ UNCHANGED exitcode
       ELSE /\ Log(p, Op("get_download_command", "", "", "", "unsupported"))
            /\ Exit(p, 1)
    /\ UNCHANGED << fs, cache_dir, history, procvars, namevars, fs0 >>

\* a download step that takes a staging file it finds for a finished download
SpawnDownloadUnlessStaged(p) ==
    /\ pc[p] = "run_command"
    /\ IF Exists(download_path_tmp(p))
       THEN /\ Goto(p, "move_part")
            /\ UNCHANGED ops
       ELSE /\ Log(p, Op("download", download_path_tmp(p), "", "", "spawned"))
            /\ Goto(p, "downloading")
    /\ UNCHANGED << fs, cache_dir, history, procvars, namevars, fs0, exitcode >>

\* install_model.py:154 and 31-39: subprocess.run starts the download command
SpawnDownload(p) ==
    /\ pc[p] = "run_command"
    /\ Log(p, Op("download", download_path_tmp(p), "", "", "spawned"))
    /\ Goto(p, "downloading")
    /\ UNCHANGED << fs, cache_dir, history, procvars, namevars, fs0, exitcode >>

\* install_model.py:55-57: the executable is missing (FileNotFoundError),
\* run_command calls sys.exit(1)
DownloadNotFound(p) ==
    /\ pc[p] = "run_command"
    /\ Log(p, Op("download", download_path_tmp(p), "", "", "notfound"))
    /\ Exit(p, 1)
    /\ UNCHANGED << fs, cache_dir, history, procvars, namevars, fs0 >>

\* the download command (install_model.py:62,64) writes bytes to its output
\* file, truncating what was there
DownloadWrite(p) ==
    /\ pc[p] = "downloading"
    /\ ~ Did(p, "write")
    /\ fs' = [fs EXCEPT ![download_path_tmp(p)] = Partial]
    /\ Log(p, Op("write", download_path_tmp(p), "", Partial, "ok"))
    /\ UNCHANGED << cache_dir, history, pc, procvars, namevars, fs0, exitcode >>

\* what the output file can hold when the download command of run p exits 0:
\* the whole artifact, unless the download command of another run has the
\* same file open and has truncated it (two writers of one file, lines 62/64
\* with the same output_path), in which case it may also be damaged
DownloadedContent(p) ==
    IF \E q \in Procs \ {p} :
          /\ pc[q] = "downloading"
          /\ download_path_tmp(q) = download_path_tmp(p)
          /\ Did(q, "write")
    THEN {Partial, Complete}
    ELSE {Complete}

\* install_model.py:33-45: the download command exits 0, its output file
\* holds the whole artifact; run_command returns
DownloadExitOk(p) ==
    /\ pc[p] = "downloading"
    /\ \E c \in DownloadedContent(p) :
          /\ fs' = [fs EXCEPT ![download_path_tmp(p)] = c]
          /\ Log(p, Op("download_exit", download_path_tmp(p), "", c, "0"))
    /\ Goto(p, "move_part")
    /\ UNCHANGED << cache_dir, history, procvars, namevars, fs0, exitcode >>

\* a run_command that does not check the exit status of the download command
DownloadExitFailUnchecked(p) ==
    /\ pc[p] = "downloading"
    /\ Log(p, Op("download_exit", download_path_tmp(p), "", fs[download_path_tmp(p)], "nonzero"))
    /\ Goto(p, "move_part")
    /\ UNCHANGED << fs, cache_dir, history, procvars, namevars, fs0, exitcode >>

\* a run_command that starts a failed download command a second time
DownloadExitFailRetryOnce(p) ==
    /\ pc[p] = "downloading"
    /\ Log(p, Op("download_exit", download_path_tmp(p), "", fs[download_path_tmp(p)], "nonzero"))
    /\ IF Len(SelectSeq(ops[p], LAMBDA e : e.op = "download")) < 2
       THEN Goto(p, "run_command") /\ UNCHANGED exitcode
       ELSE Exit(p, 1)
    /\ UNCHANGED << fs, cache_dir, history, procvars, namevars, fs0 >>

\* install_model.py:47-54: the download command exits non-zero
\* (CalledProcessError); run_command calls sys.exit(1).  SystemExit is not an
\* Exception, so the cleanup of lines 169-174 does not run.
DownloadExitFail(p) ==
    /\ pc[p] = "downloading"
    /\ Log(p, Op("download_exit", download_path_tmp(p), "", fs[download_path_tmp(p)], "nonzero"))
    /\ Exit(p, 1)
    /\ UNCHANGED << fs, cache_dir, history, procvars, namevars, fs0 >>

\* install_model.py:172-173 and 177-178: remove the staging file if present
Cleanup(p) ==
    fs' = [fs EXCEPT ![download_path_tmp(p)] = Absent]

\* the ops of a handler that was entered for reason e
HandlerOps(p, e) ==
    IF Exists(download_path_tmp(p))
    THEN << e, Op("remove", download_path_tmp(p), "", fs[download_path_tmp(p)], "ok") >>
    ELSE << e >>

\* install_model.py:169-174 and 175-179: print, clean up, sys.exit(1)
Handler(p, e) ==
    /\ Cleanup(p)
    /\ ops' = [ops EXCEPT ![p] = @ \o HandlerOps(p, e)]
    /\ Exit(p, 1)

\* an interrupt handler that exits without removing the staging file
InterruptNoCleanup(p) ==
    /\ pc[p] \in {"get_download_command", "run_command", "downloading", "move_part", "rename"}
    /\ Log(p, Op("interrupt", "", "", "", pc[p]))
    /\ Exit(p, 1)
    /\ UNCHANGED << fs, cache_dir, history, procvars, namevars, fs0 >>

\* install_model.py:175-179: KeyboardInterrupt inside the try block; while the
\* download command runs, subprocess.run kills it and re-raises
Interrupt(p) ==
    /\ pc[p] \in {"get_download_command", "run_command", "downloading", "move_part", "rename"}
    /\ Handler(p, Op("interrupt", "", "", "", pc[p]))
    /\ UNCHANGED << cache_dir, history, procvars, namevars, fs0 >>

\* a copy in place of the move: the staging file stays
MovePartCopy(p) ==
    /\ pc[p] = "move_part"
    /\ Exists(download_path_tmp(p))
    /\ fs' = [fs EXCEPT ![download_path_hf(p)] = fs[download_path_tmp(p)]]
    /\ Log(p, Op("move", download_path_tmp(p), download_path_hf(p), fs[download_path_tmp(p)], "ok"))
    /\ Goto(p, "rename")
    /\ UNCHANGED << cache_dir, history, procvars, namevars, fs0, exitcode >>

\* install_model.py:157: shutil.move(download_path_tmp, download_path_hf)
MovePartOk(p) ==
    /\ pc[p] = "move_part"
    /\ Exists(download_path_tmp(p))
    /\ fs' = [fs EXCEPT ![download_path_hf(p)] = fs[download_path_tmp(p)],
                        ![download_path_tmp(p)] = Absent]
    /\ Log(p, Op("move", download_path_tmp(p), download_path_hf(p), fs[download_path_tmp(p)], "ok"))
    /\ Goto(p, "rename")
    /\ UNCHANGED << cache_dir, history, procvars, namevars, fs0, exitcode >>

\* a failed move whose handler exits without removing the staging file
MovePartFailNoCleanup(p) ==
    /\ pc[p] = "move_part"
    /\ Log(p, Op("move", download_path_tmp(p), download_path_hf(p), fs[download_path_tmp(p)], "fail"))
    /\ Exit(p, 1)
    /\ UNCHANGED << fs, cache_dir, history, procvars, namevars, fs0 >>

\* install_model.py:157 raises (OSError), handled at 169-174
MovePartFail(p) ==
    /\ pc[p] = "move_part"
    /\ Handler(p, Op("move", download_path_tmp(p), download_path_hf(p), fs[download_path_tmp(p)], "fail"))
    /\ UNCHANGED << cache_dir, history, procvars, namevars, fs0 >>

\* install_model.py:161-167: shutil.move(download_path_hf, installable_path)
\* when needs_rename, nothing otherwise
RenameOk(p) ==
    /\ pc[p] = "rename"
    /\ IF needs_rename[p]
       THEN /\ Exists(download_path_hf(p))
            /\ fs' = [fs EXCEPT ![installable_path(p)] = fs[download_path_hf(p)],
                                ![download_path_hf(p)] = Absent]
            /\ Log(p, Op("move", download_path_hf(p), installable_path(p), fs[download_path_hf(p)], "ok"))
       ELSE UNCHANGED << fs, ops >>
    /\ Goto(p, "install")
    /\ UNCHANGED << cache_dir, history, procvars, namevars, fs0, exitcode >>

\* install_model.py:163 raises (OSError), handled at 169-174
RenameFail(p) ==
    /\ pc[p] = "rename"
    /\ needs_rename[p]
    /\ Handler(p, Op("move", download_path_hf(p), installable_path(p), fs[download_path_hf(p)], "fail"))
    /\ UNCHANGED << cache_dir, history, procvars, namevars, fs0 >>

\* install_model.py:182-186: pip install --user installable_path exits 0.
\* pip unpacks a wheel only when the file is a whole archive.
InstallOk(p) ==
    /\ pc[p] = "install"
    /\ fs[installable_path(p)] = Complete
    /\ Log(p, Op("install", installable_path(p), "", fs[installable_path(p)], "0"))
    /\ Goto(p, "get_install_info")
    /\ UNCHANGED << fs, cache_dir, history, procvars, namevars, fs0, exitcode >>

\* a failed install that throws the wheel away
InstallFailRemovesWheel(p) ==
    /\ pc[p] = "install"
    /\ fs' = [fs EXCEPT ![installable_path(p)] = Absent]
    /\ Log(p, Op("install", installable_path(p), "", fs[installable_path(p)], "nonzero"))
    /\ Exit(p, 1)
    /\ UNCHANGED << cache_dir, history, procvars, namevars, fs0 >>

\* install_model.py:184 and 47-54: pip install exits non-zero, sys.exit(1)
InstallFail(p) ==
    /\ pc[p] = "install"
    /\ Log(p, Op("install", installable_path(p), "", fs[installable_path(p)], "nonzero"))
    /\ Exit(p, 1)
    /\ UNCHANGED << fs, cache_dir, history, procvars, namevars, fs0 >>

\* what get_install_info can meet: pip show exits non-zero; its output has no
\* Location line; the model directory is missing; os.walk / getsize raises;
\* the size is printed
ShowOutcomes == {"nonzero", "no_location", "no_directory", "oserror", "size"}

\* install_model.py:188 and 69-104.  A non-zero pip show makes run_command
\* call sys.exit(1) (lines 47-54) inside the try of get_install_info;
\* `except Exception` (line 103) does not catch SystemExit.  Every other
\* outcome returns to main(), which ends with status 0.
GetInstallInfo(p, r) ==
    /\ pc[p] = "get_install_info"
    /\ Log(p, Op("show", "", "", "", r))
    /\ Exit(p, IF r = "nonzero" THEN 1 ELSE 0)
    /\ UNCHANGED << fs, cache_dir, history, procvars, namevars, fs0 >>

\* what history keeps of a run
Summary(p) ==
    [ model    |-> model_name[p],
      hit      |-> DidRes(p, "exists", "hit"),
      ndl      |-> Len(SelectSeq(ops[p], LAMBDA e : e.op = "download" /\ e.res = "spawned")),
      dl       |-> IF DidRes(p, "download_exit", "0") THEN "ok"
                   ELSE IF DidRes(p, "download_exit", "nonzero") THEN "failed"
                   ELSE "none",
      cached   |-> IF has_arg[p] /\ file_to_install[p] # ""
                   THEN Exists(installable_path(p)) ELSE FALSE,
      install  |-> IF DidRes(p, "install", "0") THEN "ok"
                   ELSE IF DidRes(p, "install", "nonzero") THEN "failed"
                   ELSE "none",
      exitcode |-> exitcode[p] ]

\* the process is gone: its slot is free for the next run
Reap(p) ==
    /\ pc[p] = "done"
    /\ history' = Append(history, Summary(p))
    /\ pc' = [pc EXCEPT ![p] = "idle"]
    /\ has_arg' = [has_arg EXCEPT ![p] = FALSE]
    /\ model_name' = [model_name EXCEPT ![p] = ""]
    /\ system' = [system EXCEPT ![p] = ""]
    /\ file_name_to_download' = [file_name_to_download EXCEPT ![p] = ""]
    /\ file_to_install' = [file_to_install EXCEPT ![p] = ""]
    /\ needs_rename' = [needs_rename EXCEPT ![p] = FALSE]
    /\ ops' = [ops EXCEPT ![p] = << >>]
    /\ fs0' = [fs0 EXCEPT ![p] = [f \in Paths |-> Absent]]
    /\ exitcode' = [exitcode EXCEPT ![p] = NotExited]
    /\ UNCHANGED << fs, cache_dir >>

\* runs executed one at a time
StartAlone(p, a, m, s) ==
    /\ \A q \in Procs : ~ Active(q)
    /\ Start(p, a, m, s)

Next ==
    \E p \in Procs :
        \/ \E a \in BOOLEAN, m \in Ids, s \in Platforms : StartAlone(p, a, m, s)
        \/ CheckArgv(p)
        \/ MakeDirs(p)
        \/ CheckCache(p)
        \/ GetDownloadCommand(p)
        \/ SpawnDownload(p)
        \/ DownloadNotFound(p)
        \/ DownloadWrite(p)
        \/ DownloadExitOk(p)
        \/ DownloadExitFail(p)
        \/ Interrupt(p)
        \/ MovePartOk(p)
        \/ MovePartFail(p)
        \/ RenameOk(p)
        \/ RenameFail(p)
        \/ InstallOk(p)
        \/ InstallFail(p)
        \/ \E r \in ShowOutcomes : GetInstallInfo(p, r)
        \/ Reap(p)

Spec == Init /\ [][Next]_vars

\* one step of main() in the run of slot p, or of one of its subprocesses
Step(p) ==
    \/ CheckArgv(p)
    \/ MakeDirs(p)
    \/ CheckCache(p)
    \/ GetDownloadCommand(p)
    \/ SpawnDownload(p)
    \/ DownloadNotFound(p)
    \/ DownloadWrite(p)
    \/ DownloadExitOk(p)
    \/ DownloadExitFail(p)
    \/ Interrupt(p)
    \/ MovePartOk(p)
    \/ MovePartFail(p)
    \/ RenameOk(p)
    \/ RenameFail(p)
    \/ InstallOk(p)
    \/ InstallFail(p)
    \/ \E r \in ShowOutcomes : GetInstallInfo(p, r)

\* runs started at any time on the same cache directory: the script takes no
\* lock (there is none in lines 106-188), so the steps of two runs interleave
NextConc ==
    \E p \in Procs :
        \/ \E a \in BOOLEAN, m \in Ids, s \in Platforms : Start(p, a, m, s)
        \/ Step(p)

SpecConc == Init /\ [][NextConc]_vars

\* runs one at a time in which the interpreter goes on executing main() and
\* every subprocess it waits for (subprocess.run, line 33) terminates
SpecFair == Spec /\ \A p \in Procs : WF_vars(Step(p))

TypeOK ==
    /\ fs \in [Paths -> {Absent, Partial, Complete}]
    /\ cache_dir \in BOOLEAN
    /\ Len(history) <= MaxRuns
    /\ \A p \in Procs : exitcode[p] \in {NotExited, 0, 1}

\* ------------------------------------------------------------ the claims
\* a run that has been started with a model identifier and has its names
Named(p) == Active(p) /\ has_arg[p] /\ pc[p] \notin {"main", "makedirs"}

Miss(p) == DidRes(p, "exists", "miss")
Hit(p) == DidRes(p, "exists", "hit")
DownloadFailed(p) == DidRes(p, "download_exit", "nonzero")
WroteBytes(p) == Did(p, "write")
Exited(p) == pc[p] = "done"

\* C1: in every state of runs executed one at a time, an installable path
\* that exists holds a completely downloaded artifact; the cache is probed
\* only at the installable path; and pip install is only ever invoked on the
\* installable path of the run while it exists and holds a complete artifact.
C1_OnlyCompleteArtifactsCachedOrInstalled ==
    /\ \A m \in Ids :
          Exists(file_to_install_of(m)) => fs[file_to_install_of(m)] = Complete
    /\ \A p \in Procs : \A i \in 1..Len(ops[p]) :
          /\ ops[p][i].op = "exists" =>
                ops[p][i].src = file_to_install_of(model_name[p])
          /\ ops[p][i].op = "install" =>
                /\ ops[p][i].src = file_to_install_of(model_name[p])
                /\ ops[p][i].data = Complete
                /\ fs[ops[p][i].src] = Complete

\* C1 witness: pip install has run on the installable path in a run that
\* follows a run for the same identifier whose download failed
C1_Witness ==
    \E p \in Procs : \E i \in 1..Len(history) :
        /\ DidRes(p, "install", "0")
        /\ Miss(p)
        /\ history[i].model = model_name[p]
        /\ history[i].dl = "failed"
        /\ fs[installable_path(p)] = Complete

\* C2: a run whose download command wrote bytes to the staging path and then
\* exited non-zero has no staging file left once it has exited.
C2_StagingRemovedAfterFailedDownload ==
    \A p \in Procs :
        Exited(p) /\ DownloadFailed(p) /\ WroteBytes(p)
            => ~ Exists(download_path_tmp(p))

\* C3: once pip install has succeeded the run exits with status 0, whatever
\* get_install_info meets.
C3_InspectorNeverFailsRun ==
    \A p \in Procs :
        Exited(p) /\ DidRes(p, "install", "0") => exitcode[p] = 0

\* C4: a run whose download command fails (exits non-zero, or cannot be
\* started) has exited with status 1, has created neither the remote-named
\* file nor the installable file, performed no rename and never invoked pip.
C4_DownloadFailureIsTerminal ==
    \A p \in Procs :
        DownloadFailed(p) \/ DidRes(p, "download", "notfound") =>
            /\ Exited(p)
            /\ exitcode[p] = 1
            /\ Miss(p)
            /\ ~ Did(p, "move")
            /\ ~ Did(p, "install")
            /\ ~ Did(p, "show")
            /\ fs[download_path_hf(p)] = fs0[p][download_path_hf(p)]
            /\ fs[installable_path(p)] = Absent

\* C4 witness: the download command wrote bytes, exited non-zero, and the run
\* has exited
C4_Witness ==
    \E p \in Procs :
        Exited(p) /\ DownloadFailed(p) /\ WroteBytes(p) /\ exitcode[p] = 1

\* the run in slot p follows, for the same identifier, the run history[i]
Follows(p, i) ==
    /\ i \in 1..Len(history)
    /\ Named(p)
    /\ model_name[p] = history[i].model

\* a later run of the same identifier than history[i], as kept in history
LaterInHistory(i, j) ==
    /\ i \in 1..Len(history)
    /\ j \in (i + 1)..Len(history)
    /\ history[j].model = history[i].model
    /\ history[j].model # ""

\* the run in slot p took the short way: probe, hit, install
WentDirectlyToInstall(p) ==
    /\ ~ Did(p, "get_download_command")
    /\ ~ Did(p, "download")
    /\ ~ Did(p, "write")
    /\ ~ Did(p, "move")
    /\ Len(ops[p]) >= 2 => ops[p][2].op = "exists" /\ ops[p][2].res = "hit"
    /\ Len(ops[p]) >= 3 =>
          ops[p][3].op = "install" /\ ops[p][3].src = file_to_install_of(model_name[p])
    /\ pc[p] \in {"check_cache", "install", "get_install_info", "done"}

\* C5: starting from the empty cache, when the first run downloads and
\* renames successfully, a second run for the same identifier invokes no
\* download command (one invocation in total over the two runs), finds the
\* installable path present and goes directly to pip install.
C5_SecondRunSkipsDownload ==
    (Len(history) >= 1 /\ history[1].dl = "ok" /\ history[1].cached) =>
        /\ history[1].ndl = 1
        /\ ~ history[1].hit
        /\ \A p \in Procs :
              Len(history) = 1 /\ Follows(p, 1) => WentDirectlyToInstall(p)
        /\ (Len(history) >= 2 /\ history[2].model = history[1].model) =>
              /\ history[1].ndl + history[2].ndl = 1
              /\ history[2].hit
              /\ history[2].install # "none"

\* C5 witness: two runs for the same identifier have exited, the first one
\* downloaded and renamed, the second one hit the cache and installed
C5_Witness ==
    /\ Len(history) >= 2
    /\ history[1].model = history[2].model
    /\ history[1].dl = "ok" /\ history[1].cached
    /\ history[2].hit /\ history[2].ndl = 0 /\ history[2].install = "ok"

\* C6: a run that finds the installable path present starts no download
\* command, creates no staging or remote-named file, renames nothing, leaves
\* the whole cache directory as it found it, and invokes pip install on the
\* installable path.
C6_CacheHitShortCircuit ==
    \A p \in Procs :
        Hit(p) =>
            /\ WentDirectlyToInstall(p)
            /\ fs0[p][installable_path(p)] # Absent
            /\ fs = fs0[p]
            /\ Exited(p) => Did(p, "install")

\* C6 witness: a run has hit the cache, installed and exited
C6_Witness ==
    \E p \in Procs :
        Hit(p) /\ Exited(p) /\ DidRes(p, "install", "0") /\ exitcode[p] = 0

\* C7: when pip install exits non-zero the run exits with status 1 without
\* running get_install_info, the installable file stays on disk, and every
\* later run for the same identifier hits the cache and downloads nothing.
C7_InstallFailureKeepsCache ==
    /\ \A p \in Procs :
          DidRes(p, "install", "nonzero") =>
              /\ Exited(p)
              /\ exitcode[p] = 1
              /\ ~ Did(p, "show")
              /\ fs[installable_path(p)] = Complete
    /\ \A i \in 1..Len(history) :
          history[i].install = "failed" =>
              /\ history[i].exitcode = 1
              /\ history[i].cached
              /\ fs[file_to_install_of(history[i].model)] = Complete
              /\ \A p \in Procs : Follows(p, i) => WentDirectlyToInstall(p)
              /\ \A j \in 1..Len(history) :
                    LaterInHistory(i, j) => history[j].hit /\ history[j].ndl = 0

\* C7 witness: a run whose install failed after a download is followed by a
\* run for the same identifier that hit the cache
C7_Witness ==
    \E i \in 1..Len(history) : \E p \in Procs :
        /\ history[i].install = "failed"
        /\ history[i].dl = "ok"
        /\ Follows(p, i)
        /\ Hit(p)
        /\ Did(p, "install")

\* the number of renames the run in slot p has carried out
MovesDone(p) == Len(SelectSeq(ops[p], LAMBDA e : e.op = "move" /\ e.res = "ok"))

\* C8: for the identifier "grc_proiel_trf" the remote and the installable file
\* name are the same, needs_rename is false, the remote cache path is the
\* installable path and a run that reaches pip install after a download has
\* moved the file once (staging -> cache) and not renamed it; for every other
\* identifier X the remote name is X-any-py3-none-any.whl, the installable
\* name is X-0.0.0-py3-none-any.whl, the two differ, needs_rename is true and
\* the rename has taken place before pip install.
C8_NamingRule ==
    \A p \in Procs :
        Named(p) =>
            IF model_name[p] = "grc_proiel_trf"
            THEN /\ file_name_to_download[p] = file_to_install[p]
                 /\ needs_rename[p] = FALSE
                 /\ download_path_hf(p) = installable_path(p)
                 /\ (Miss(p) /\ Did(p, "install")) => MovesDone(p) = 1
            ELSE /\ file_name_to_download[p] = model_name[p] \o "-any-py3-none-any.whl"
                 /\ file_to_install[p] = model_name[p] \o "-0.0.0-py3-none-any.whl"
                 /\ file_name_to_download[p] # file_to_install[p]
                 /\ needs_rename[p] = TRUE
                 /\ (Miss(p) /\ Did(p, "install")) => MovesDone(p) = 2

\* C8 witness: both variants of the rule have been through a download and
\* reached pip install (one in an earlier run, one in the current run)
C8_Witness ==
    \E p \in Procs : \E i \in 1..Len(history) :
        /\ Named(p) /\ Miss(p) /\ Did(p, "install")
        /\ history[i].dl = "ok" /\ history[i].install # "none"
        /\ (model_name[p] = "grc_proiel_trf") # (history[i].model = "grc_proiel_trf")

\* the ops of the run in slot p without the writes of the download command
\* and without the metadata query
MainOps(p) == SelectSeq(ops[p], LAMBDA e : e.op \notin {"write", "show"})

\* the ops of a cache miss in which every step succeeds
ExpectedMissOps(p) ==
    << Op("makedirs", "", "", "", "ok"),
       Op("exists", installable_path(p), "", Absent, "miss"),
       Op("get_download_command", "", "", "",
          IF system[p] = "Windows" THEN "powershell" ELSE "curl"),
       Op("download", download_path_tmp(p), "", "", "spawned"),
       Op("download_exit", download_path_tmp(p), "", Complete, "0"),
       Op("move", download_path_tmp(p), download_path_hf(p), Complete, "ok") >>
    \o (IF needs_rename[p]
        THEN << Op("move", download_path_hf(p), installable_path(p), Complete, "ok") >>
        ELSE << >>)
    \o << Op("install", installable_path(p), "", Complete, "0") >>

\* every step of the run in slot p has succeeded and the run has exited
AllStepsSucceeded(p) ==
    /\ Exited(p)
    /\ DidRes(p, "download_exit", "0")
    /\ DidRes(p, "install", "0")
    /\ Did(p, "show") /\ ~ DidRes(p, "show", "nonzero")

\* C9: a cache miss in which every step succeeds (the metadata query
\* included) does exactly this, in this order: the download command writes to
\* the staging path only; after it exits 0 the staging file is moved to the
\* remote cache path; when needs_rename, that file is moved to the
\* installable path; pip install runs on the installable path; the run exits
\* 0.  At exit the installable file is there and complete, the staging file
\* is not, and neither is the remote-named file when a rename was needed.
\* Until the first move, the download has touched the staging path only.
C9_MissOrder ==
    \A p \in Procs :
        /\ (Miss(p) /\ ~ Did(p, "move")) =>
              \A f \in Paths : f # download_path_tmp(p) => fs[f] = fs0[p][f]
        /\ \A i \in 1..Len(ops[p]) :
              ops[p][i].op \in {"write", "download", "download_exit"} =>
                  ops[p][i].src = download_path_tmp_of(file_name_to_download_of(model_name[p]))
        /\ (Miss(p) /\ AllStepsSucceeded(p)) =>
              /\ exitcode[p] = 0
              /\ MainOps(p) = ExpectedMissOps(p)
              /\ ops[p][Len(ops[p])].op = "show"
              /\ fs[installable_path(p)] = Complete
              /\ fs[download_path_tmp(p)] = Absent
              /\ needs_rename[p] => fs[download_path_hf(p)] = Absent

\* C9 witness: such a run for an identifier that needs the rename, whose
\* download command wrote the file in more than one piece
C9_Witness ==
    \E p \in Procs :
        /\ Miss(p) /\ AllStepsSucceeded(p) /\ needs_rename[p]
        /\ WroteBytes(p)
        /\ exitcode[p] = 0

\* the platforms get_download_command knows
Supported == {"Linux", "Darwin", "Windows"}

\* C10 as stated: on a platform outside the supported families every run
\* exits with status 1 before any filesystem operation (creating the cache
\* directory and probing the cache included) and before any download.
C10_UnsupportedExitsBeforeAnything ==
    \A p \in Procs :
        (Active(p) /\ has_arg[p] /\ system[p] \notin Supported) =>
            /\ ops[p] = << >>
            /\ Exited(p) => exitcode[p] = 1

\* C10 amended: on a platform outside the supported families a run that is
\* not interrupted never starts a download command and never creates, renames
\* or removes a file of the cache.  When it misses the cache it exits with
\* status 1 right after the probe: it has created the cache directory, probed
\* the installable path, and done nothing else.  When it finds the installable
\* path cached it is not stopped: it goes on to pip install.
C10_UnsupportedMissExitsBeforeDownload ==
    \A p \in Procs :
        (Named(p) /\ system[p] \notin Supported /\ ~ Did(p, "interrupt")) =>
            /\ ~ Did(p, "download")
            /\ ~ Did(p, "write")
            /\ ~ Did(p, "move")
            /\ ~ Did(p, "remove")
            /\ fs = fs0[p]
            /\ cache_dir
            /\ (Miss(p) /\ pc[p] # "get_download_command") =>
                  /\ Exited(p)
                  /\ exitcode[p] = 1
                  /\ ops[p] = << Op("makedirs", "", "", "", "ok"),
                                 Op("exists", installable_path(p), "", Absent, "miss"),
                                 Op("get_download_command", "", "", "", "unsupported") >>
            /\ Hit(p) => WentDirectlyToInstall(p) /\ (Exited(p) => Did(p, "install"))

\* C10 witness: a run on an unsupported platform missed the cache and exited
\* with status 1
C10_Witness ==
    \E p \in Procs :
        /\ system[p] \notin Supported
        /\ Miss(p) /\ Exited(p) /\ exitcode[p] = 1
        /\ DidRes(p, "get_download_command", "unsupported")

\* a run on an unsupported platform hit the cache, installed and exited 0
C10_WitnessHit ==
    \E p \in Procs :
        /\ system[p] \notin Supported
        /\ Hit(p) /\ Exited(p) /\ exitcode[p] = 0

\* C11: a run started without the model identifier does nothing and exits
\* with status 1: it does not create the cache directory, creates or renames
\* no file, and starts no subprocess.
C11_UsageErrorHasNoSideEffects ==
    /\ \A p \in Procs :
          (Active(p) /\ ~ has_arg[p]) =>
              /\ pc[p] \in {"main", "done"}
              /\ ops[p] = << >>
              /\ fs = fs0[p]
              /\ Exited(p) => exitcode[p] = 1
    /\ ((\A i \in 1..Len(history) : history[i].model = "")
        /\ (\A p \in Procs : Active(p) => ~ has_arg[p])) =>
            /\ ~ cache_dir
            /\ \A f \in Paths : fs[f] = Absent

\* C11 witness: a run without the argument has exited after a run that had
\* populated the cache
C11_Witness ==
    \E p \in Procs :
        /\ Exited(p) /\ ~ has_arg[p] /\ exitcode[p] = 1
        /\ \E f \in Paths : fs[f] = Complete

\* the run in slot p was interrupted while its download command was running
InterruptedDownload(p) == DidRes(p, "interrupt", "downloading")

\* C12: a run interrupted while the download command is running has exited
\* with status 1, its staging file is gone, and the run has left neither the
\* remote-named file nor the installable file behind (no rename, no install).
C12_InterruptedDownloadCleansUp ==
    \A p \in Procs :
        InterruptedDownload(p) =>
            /\ Exited(p)
            /\ exitcode[p] = 1
            /\ fs[download_path_tmp(p)] = Absent
            /\ fs[download_path_hf(p)] = fs0[p][download_path_hf(p)]
            /\ fs[installable_path(p)] = Absent
            /\ ~ Did(p, "move")
            /\ ~ Did(p, "install")

\* C12 witness: the download command had written bytes when the interrupt
\* came, and the handler removed the staging file
C12_Witness ==
    \E p \in Procs :
        /\ InterruptedDownload(p) /\ WroteBytes(p)
        /\ Did(p, "remove")
        /\ Exited(p)

\* C13: a run in which a rename fails after a successful download (staging ->
\* remote cache path, or remote cache path -> installable path) has exited
\* with status 1, has no staging file left and has not invoked pip install.
C13_RenameFailureCleansUp ==
    \A p \in Procs :
        DidRes(p, "move", "fail") =>
            /\ DidRes(p, "download_exit", "0")
            /\ Exited(p)
            /\ exitcode[p] = 1
            /\ fs[download_path_tmp(p)] = Absent
            /\ ~ Did(p, "install")
            /\ ~ Did(p, "show")

\* C13 witness: the first move failed and the handler removed the staging file
C13_Witness ==
    \E p \in Procs :
        /\ DidRes(p, "move", "fail")
        /\ MovesDone(p) = 0
        /\ Did(p, "remove")
        /\ Exited(p)

\* a second case of C13: the normalization rename failed
C13_WitnessRename ==
    \E p \in Procs :
        DidRes(p, "move", "fail") /\ MovesDone(p) = 1 /\ Exited(p)

\* C14 as stated: after a run whose download command exited 0, whatever
\* happened to the run afterwards, no later run for the same identifier
\* starts the download command again.
C14_NoDownloadDiscarded ==
    \A i \in 1..Len(history) :
        history[i].dl = "ok" =>
            /\ \A p \in Procs : Follows(p, i) => ~ Did(p, "download")
            /\ \A j \in 1..Len(history) : LaterInHistory(i, j) => history[j].ndl = 0

\* C14 amended: after a run whose download command exited 0 and whose
\* renames brought the file to the installable path, whatever happened to
\* the run afterwards (pip install failing included), every later run for
\* the same identifier finds the file, goes directly to pip install on it and
\* starts no download command; the file at the installable path is still the
\* complete artifact.
C14_RenamedDownloadIsReused ==
    \A i \in 1..Len(history) :
        (history[i].dl = "ok" /\ history[i].cached) =>
            /\ fs[file_to_install_of(history[i].model)] = Complete
            /\ \A p \in Procs : Follows(p, i) => WentDirectlyToInstall(p)
            /\ \A j \in 1..Len(history) :
                  LaterInHistory(i, j) =>
                      history[j].hit /\ history[j].ndl = 0 /\ history[j].dl = "none"

\* C14 witness: a later run for the identifier of a run that downloaded and
\* renamed has hit the cache, installed and exited 0
C14_Witness ==
    \E i \in 1..Len(history) : \E p \in Procs :
        /\ history[i].dl = "ok" /\ history[i].cached
        /\ Follows(p, i)
        /\ Hit(p) /\ Exited(p) /\ exitcode[p] = 0

\* the case that refutes C14 as stated: the download of an earlier run
\* succeeded, the file did not reach the installable path, and a later run
\* for the same identifier downloads again
C14_WitnessDiscarded ==
    \E i \in 1..Len(history) : \E p \in Procs :
        /\ history[i].dl = "ok" /\ ~ history[i].cached
        /\ Follows(p, i)
        /\ DidRes(p, "download_exit", "0")

\* the run in slot p has moved its staging file into the cache
MovedStaging(p, c) ==
    \E i \in 1..Len(ops[p]) :
        /\ ops[p][i].op = "move" /\ ops[p][i].res = "ok"
        /\ ops[p][i].src = download_path_tmp(p)
        /\ ops[p][i].data = c

\* the run in slot p has invoked pip install on a file holding c
InstalledFrom(p, c) ==
    \E i \in 1..Len(ops[p]) : ops[p][i].op = "install" /\ ops[p][i].data = c

\* the run in slot q is, or was, in the download section for the identifier
\* of the run in slot p
SharesStaging(p, q) ==
    /\ q # p
    /\ Named(p) /\ Named(q)
    /\ model_name[q] = model_name[p]
    /\ download_path_tmp(q) = download_path_tmp(p)
    /\ Miss(q)

\* the run in slot p has been damaged by a race: it has moved a staging file
\* that was not whole into the cache, invoked pip install on a file that is
\* not the whole artifact, or stands before its first move, after its own
\* successful download, without a whole staging file
Damaged(p) ==
    \/ MovedStaging(p, Partial)
    \/ InstalledFrom(p, Partial)
    \/ InstalledFrom(p, Absent)
    \/ pc[p] = "move_part" /\ fs[download_path_tmp(p)] # Complete

\* first bad state: run p has renamed the shared staging file into the cache
\* and invoked pip install on it while the download command of run q is still
\* writing it
RenamedWhileWritten(p, q) ==
    /\ SharesStaging(p, q)
    /\ pc[q] = "downloading" /\ Did(q, "write")
    /\ MovedStaging(p, Partial)
    /\ InstalledFrom(p, Partial)

\* second bad state: the cleanup of run q has removed the staging file that
\* run p, whose download succeeded, is about to rename
CleanupRemovedStaging(p, q) ==
    /\ SharesStaging(p, q)
    /\ pc[p] = "move_part"
    /\ ops[p][Len(ops[p])].data = Complete
    /\ fs[download_path_tmp(p)] = Absent
    /\ Exited(q)
    /\ ops[q][Len(ops[q])].op = "remove"
    /\ ops[q][Len(ops[q])].data = Complete

\* C15: with runs interleaving on one cache directory, two runs for the same
\* identifier use the same staging path and nothing keeps them out of the
\* download section together; a run is damaged by a race (it renames a
\* staging file that is not whole into the cache, invokes pip install on such
\* a file, or finds its staging file gone or damaged before the rename) only
\* when another run for the same identifier shares its staging path; runs
\* for different identifiers never touch each other's staging file.
C15_RacesOnSharedStaging ==
    /\ \A p, q \in Procs :
          (p # q /\ Named(p) /\ Named(q)) =>
              (model_name[p] = model_name[q]
                  <=> download_path_tmp(p) = download_path_tmp(q))
    /\ \A p \in Procs :
          (Named(p) /\ Damaged(p)) => \E q \in Procs : SharesStaging(p, q)
    /\ \A m \in Ids :
          fs[file_to_install_of(m)] = Partial =>
              \E p, q \in Procs : model_name[p] = m /\ SharesStaging(p, q)

\* C15 witness: the first bad state
C15_Witness ==
    \E p, q \in Procs : RenamedWhileWritten(p, q)

\* the second bad state
C15_WitnessCleanup ==
    \E p, q \in Procs : CleanupRemovedStaging(p, q)

\* how many times the run in slot p has done o
Count(p, o) == Len(SelectSeq(ops[p], LAMBDA e : e.op = o))

\* the run in slot p has invoked no subprocess more than once
AtMostOnce(p) ==
    /\ Count(p, "get_download_command") <= 1
    /\ Count(p, "download") <= 1
    /\ Count(p, "download_exit") <= 1
    /\ Count(p, "install") <= 1
    /\ Count(p, "show") <= 1

\* C16: within one run the download command, pip install and pip show are
\* each invoked at most once (nothing is retried), and, when the interpreter
\* keeps running and every subprocess terminates, every run that was started
\* exits, with status 0 or 1.
C16_NoRetryAndTermination ==
    /\ [](\A p \in Procs : AtMostOnce(p))
    /\ [](\A p \in Procs : Exited(p) <=> exitcode[p] \in {0, 1})
    /\ \A p \in Procs : Active(p) ~> Exited(p)

\* C16 witness: a run has exited after one download that failed
C16_Witness ==
    \E p \in Procs :
        /\ Exited(p) /\ exitcode[p] = 1
        /\ Count(p, "download") = 1
        /\ DownloadFailed(p)

\* a run has exited after one download, one install and one metadata query
C16_WitnessFullRun ==
    \E p \in Procs :
        /\ Exited(p)
        /\ Count(p, "download") = 1 /\ Count(p, "install") = 1 /\ Count(p, "show") = 1

\* the run in slot p started with a staging file left by an earlier run
StaleStaging(p) == Named(p) /\ fs0[p][download_path_tmp(p)] # Absent

\* C17: in every state of runs executed one at a time, the staging file and
\* the installable file of one identifier never exist together; a staging
\* file is only moved into the cache by the run whose own download command
\* has exited 0 just before, and what is moved is the whole artifact, also
\* when the run found a staging file left by an earlier failed run (the
\* download writes over it).
C17_StagingNeverBesideInstallable ==
    /\ \A m \in Ids :
          ~ ( Exists(download_path_tmp_of(file_name_to_download_of(m)))
              /\ Exists(file_to_install_of(m)) )
    /\ \A p \in Procs : \A i \in 1..Len(ops[p]) :
          (ops[p][i].op = "move" /\ ops[p][i].src = download_path_tmp(p)) =>
              /\ i > 1
              /\ ops[p][i - 1].op = "download_exit"
              /\ ops[p][i - 1].res = "0"
              /\ ops[p][i - 1].data = Complete
              /\ ops[p][i].data = Complete
    /\ \A p \in Procs :
          (StaleStaging(p) /\ Exists(installable_path(p)) /\ Miss(p)) =>
              DidRes(p, "download_exit", "0")

\* C17 witness: a run that found a partial staging file left by a failed run
\* has downloaded, moved the staging file and produced the installable file
C17_Witness ==
    \E p \in Procs :
        /\ Named(p)
        /\ fs0[p][download_path_tmp(p)] = Partial
        /\ MovedStaging(p, Complete)
        /\ fs[installable_path(p)] = Complete
        /\ fs[download_path_tmp(p)] = Absent
====
